---- MODULE Spec2Model ----
(***************************************************************************)
(* Model of mutwo's ISiS frontend (mutwo/converters/frontends/isis.py)     *)
(* and of SimpleEvent (mutwo/events/basic/SimpleEvent.py).                 *)
(*                                                                         *)
(* Text is modelled as a sequence of lines (the text split at "\n"); a     *)
(* line is the sequence of the string pieces whose concatenation is the    *)
(* line.  Python tuples are TLA+ tuples, shifted to index from 1.          *)
(***************************************************************************)
EXTENDS Integers, Sequences, FiniteSets, TLC

VARIABLES
    isis_score_converter,      \* IsisScoreConverter's fields
    isis_converter,            \* IsisConverter's fields
    score_file,                \* the file at isis_score_converter.path
    pc,                        \* position of the running convert call
    call,                      \* the public method called last
    event_to_convert,          \* its argument
    raised,                    \* the exception it left with, or "none"
    system_calls,              \* commands handed to os.system by this call
    exit_status,               \* what os.system returned last
    extracted_data_per_event,  \* argument of _make_key_from_extracted_data_per_event
    key_name,                  \* argument of _make_key_from_extracted_data_per_event
    key_block,                 \* its return value
    simple_event_to_convert,   \* argument of _convert_simple_event
    extracted,                 \* its outcome
    simple_event,              \* a SimpleEvent's instance dictionary
    assigned_duration,         \* the duration assigned to it last
    parameter                  \* outcome of the last get_parameter call

vars == <<isis_score_converter, isis_converter, score_file, pc, call,
          event_to_convert, raised, system_calls, exit_status,
          extracted_data_per_event, key_name, key_block,
          simple_event_to_convert, extracted, simple_event,
          assigned_duration, parameter>>

(***************************************************************************)
(* Bounds                                                                  *)
(***************************************************************************)
MaxEvents == 2        \* longest SequentialEvent handed to convert
MaxWrapEvents == 4    \* longest record sequence handed to _make_key_...
MaxPerLine == 3       \* largest n_events_per_line
MaxExit == 1          \* largest exit status of the external command
MaxValue == 2         \* largest attribute value / duration of a SimpleEvent

(***************************************************************************)
(* Parameters (mutwo.parameters, value objects)                            *)
(***************************************************************************)
WesternPitch(name, octave) == [pitch_class_name |-> name, octave |-> octave]

DirectVolume(amplitude) == [amplitude |-> amplitude]

PitchClass == [c |-> 0, d |-> 2, f |-> 5, g |-> 7]

midi_pitch_number(pitch) == 12 * (pitch.octave + 1) + PitchClass[pitch.pitch_class_name]

(***************************************************************************)
(* Events.  A leaf event is its duration, the set of the attributes it     *)
(* carries and their values (a value the event does not carry is kept at   *)
(* a fixed filler so that equal events are equal records).                 *)
(***************************************************************************)
Leaf(duration, attrs, consonants, vowel, pitch_or_pitches, volume) ==
    [kind |-> "SimpleEvent", duration |-> duration, attrs |-> attrs,
     consonants |-> IF "consonants" \in attrs THEN consonants ELSE <<>>,
     vowel |-> IF "vowel" \in attrs THEN vowel ELSE "",
     pitch_or_pitches |-> IF "pitch_or_pitches" \in attrs THEN pitch_or_pitches ELSE <<>>,
     volume |-> IF "volume" \in attrs THEN volume ELSE DirectVolume(0)]

AttributeNames == {"consonants", "vowel", "pitch_or_pitches", "volume"}

\* every leaf event over small value sets
LeafEvents ==
    { Leaf(d, a, c, v, p, vol) :
        d \in 1..MaxValue, a \in SUBSET AttributeNames,
        c \in {<<>>, <<"t">>}, v \in {"a"},
        p \in {<<>>, <<WesternPitch("f", 4)>>}, vol \in {DirectVolume(1)} }

SequentialEvent(events) == [kind |-> "SequentialEvent", events |-> events]

SimultaneousEvent(events) == [kind |-> "SimultaneousEvent", events |-> events]

(***************************************************************************)
(* Outcome of a call: the exception it raised ("none": it returned) and    *)
(* the value it returned.                                                  *)
(***************************************************************************)
Returned(value) == [raised |-> "none", value |-> value]

Raised(exception) == [raised |-> exception, value |-> <<>>]

(***************************************************************************)
(* IsisScoreConverter.__init__: the default extraction functions           *)
(***************************************************************************)
simple_event_to_pitch(e) ==
    IF "pitch_or_pitches" \notin e.attrs THEN Raised("AttributeError")
    ELSE IF e.pitch_or_pitches = <<>> THEN Raised("IndexError")
    ELSE Returned(e.pitch_or_pitches[1])

simple_event_to_volume(e) ==
    IF "volume" \notin e.attrs THEN Raised("AttributeError") ELSE Returned(e.volume)

simple_event_to_vowel(e) ==
    IF "vowel" \notin e.attrs THEN Raised("AttributeError") ELSE Returned(e.vowel)

simple_event_to_consonants(e) ==
    IF "consonants" \notin e.attrs THEN Raised("AttributeError") ELSE Returned(e.consonants)

\* self._extraction_functions, in the constructor's order
extraction_functions(i, e) ==
    CASE i = 1 -> simple_event_to_consonants(e)
      [] i = 2 -> simple_event_to_vowel(e)
      [] i = 3 -> simple_event_to_pitch(e)
      [] i = 4 -> simple_event_to_volume(e)

(***************************************************************************)
(* IsisScoreConverter._convert_simple_event                                *)
(***************************************************************************)
\* the record returned from the except branch
DefaultExtractedData(duration) ==
    <<duration, <<>>, "_", WesternPitch("c", -1), DirectVolume(0)>>

\* the loop with the default substituted for the failing field alone
RECURSIVE ExtractFromPerField(_, _, _)
ExtractFromPerField(i, e, extracted_data) ==
    IF i > 4 THEN Returned(<<extracted_data>>)
    ELSE LET extracted_information == extraction_functions(i, e)
         IN  IF extracted_information.raised = "AttributeError"
             THEN ExtractFromPerField(i + 1, e,
                      Append(extracted_data, DefaultExtractedData(e.duration)[i + 1]))
             ELSE IF extracted_information.raised # "none"
             THEN Raised(extracted_information.raised)
             ELSE ExtractFromPerField(i + 1, e,
                      Append(extracted_data, extracted_information.value))

\* the loop over the extraction functions, from the i-th on, with the
\* list extracted_data built so far
RECURSIVE ExtractFrom(_, _, _)
ExtractFrom(i, e, extracted_data) ==
    IF i > 4 THEN Returned(<<extracted_data>>)
    ELSE LET extracted_information == extraction_functions(i, e)
         IN  IF extracted_information.raised = "AttributeError"
             THEN Returned(<<DefaultExtractedData(e.duration)>>)
             ELSE IF extracted_information.raised # "none"
             THEN Raised(extracted_information.raised)
             ELSE ExtractFrom(i + 1, e, Append(extracted_data, extracted_information.value))

convert_simple_event(e) == ExtractFrom(1, e, <<e.duration>>)

(***************************************************************************)
(* IsisScoreConverter._convert_simultaneous_event                          *)
(***************************************************************************)
convert_simultaneous_event(e) == Raised("NotImplementedError")

(***************************************************************************)
(* EventConverter._convert_event (mutwo.converters.abc): dispatch on the   *)
(* event's class; a sequential event is the concatenation of its           *)
(* children's conversions, and the first exception leaves the call.        *)
(***************************************************************************)
RECURSIVE convert_sequential_event(_, _)
convert_sequential_event(events, i) ==
    IF i > Len(events) THEN Returned(<<>>)
    ELSE LET head == convert_simple_event(events[i])
         IN  IF head.raised # "none" THEN head
             ELSE LET tail == convert_sequential_event(events, i + 1)
                  IN  IF tail.raised # "none" THEN tail
                      ELSE Returned(head.value \o tail.value)

convert_event(e) ==
    CASE e.kind = "SimpleEvent" -> convert_simple_event(e)
      [] e.kind = "SequentialEvent" -> convert_sequential_event(e.events, 1)
      [] e.kind = "SimultaneousEvent" -> convert_simultaneous_event(e)

(***************************************************************************)
(* The key functions handed to _make_key_from_extracted_data_per_event     *)
(* (the lambdas of the two section makers); extracted_data[k] of the       *)
(* source is extracted_data[k + 1] here.                                   *)
(***************************************************************************)
KeyNames == {"xsampa", "midiNotes", "rhythm", "loud_accents"}

key(name, extracted_data) ==
    CASE name = "xsampa" -> extracted_data[2] \o <<extracted_data[3]>>
      [] name = "midiNotes" -> <<ToString(midi_pitch_number(extracted_data[4]))>>
      [] name = "rhythm" -> <<ToString(extracted_data[1])>>
      [] name = "loud_accents" -> <<ToString(extracted_data[5].amplitude)>>

\* len(key_name)
len == [xsampa |-> 6, midiNotes |-> 9, rhythm |-> 6, loud_accents |-> 12]

(***************************************************************************)
(* IsisScoreConverter._make_key_from_extracted_data_per_event              *)
(***************************************************************************)
\* objects_per_line with the event's items assigned to the last line
\* instead of appended to it
RECURSIVE objects_per_line_assign(_, _, _, _)
objects_per_line_assign(name, data, n_events_per_line, k) ==
    IF k = 0 THEN << <<>> >>
    ELSE LET before == objects_per_line_assign(name, data, n_events_per_line, k - 1)
             nth_event == k - 1
             extended == [before EXCEPT ![Len(before)] = key(name, data[k])]
         IN  IF nth_event % n_events_per_line = 0
             THEN Append(extended, <<>>)
             ELSE extended

\* objects_per_line after the loop has handled the first k events
RECURSIVE objects_per_line(_, _, _, _)
objects_per_line(name, data, n_events_per_line, k) ==
    IF k = 0 THEN << <<>> >>
    ELSE LET before == objects_per_line(name, data, n_events_per_line, k - 1)
             nth_event == k - 1
             extended == [before EXCEPT ![Len(before)] = @ \o key(name, data[k])]
         IN  IF nth_event % n_events_per_line = 0
             THEN Append(extended, <<>>)
             ELSE extended

\* separator.join(items), as pieces
RECURSIVE Join(_, _)
Join(separator, items) ==
    IF Len(items) = 0 THEN <<>>
    ELSE IF Len(items) = 1 THEN <<items[1]>>
    ELSE <<items[1], separator>> \o Join(separator, Tail(items))

\* " " * count, as pieces
Spaces(count) == [i \in 1..count |-> " "]

\* the lines of "{}: {}".format(key_name, join_string.join(...)): the
\* join string ends a line with "," and indents the next one
make_key_from_extracted_data_per_event(name, data, n_events_per_line) ==
    LET lines == SelectSeq(objects_per_line(name, data, n_events_per_line, Len(data)),
                           LAMBDA line : line # <<>>)
        joined == [i \in 1..Len(lines) |-> Join(", ", lines[i])]
        ended == [i \in 1..Len(lines) |->
                    IF i < Len(lines) THEN Append(joined[i], ",") ELSE joined[i]]
    IN  IF Len(lines) = 0 THEN << <<name, ": ">> >>
        ELSE [i \in 1..Len(lines) |->
                IF i = 1 THEN <<name, ": ">> \o ended[i]
                ELSE Spaces(len[name] + 2) \o ended[i]]

(***************************************************************************)
(* IsisScoreConverter._make_lyrics_section_from_extracted_data_per_event   *)
(***************************************************************************)
make_lyrics_section_from_extracted_data_per_event(self, data) ==
    << <<"[lyrics]">> >>
      \o make_key_from_extracted_data_per_event("xsampa", data, self.n_events_per_line)

\* the score section with rhythm and globalTransposition exchanged
make_score_section_exchanged(self, data) ==
    LET midi_notes == make_key_from_extracted_data_per_event(
                          "midiNotes", data, self.n_events_per_line)
        rhythm == make_key_from_extracted_data_per_event(
                          "rhythm", data, self.n_events_per_line)
        loud_accents == make_key_from_extracted_data_per_event(
                          "loud_accents", data, self.n_events_per_line)
    IN  << <<"[score]">> >>
          \o midi_notes
          \o rhythm
          \o << <<"globalTransposition", ": ", ToString(self.global_transposition)>> >>
          \o loud_accents
          \o << <<"tempo", ": ", ToString(self.tempo)>> >>

(***************************************************************************)
(* IsisScoreConverter._make_score_section_from_extracted_data_per_event    *)
(***************************************************************************)
make_score_section_from_extracted_data_per_event(self, data) ==
    LET midi_notes == make_key_from_extracted_data_per_event(
                          "midiNotes", data, self.n_events_per_line)
        rhythm == make_key_from_extracted_data_per_event(
                          "rhythm", data, self.n_events_per_line)
        loud_accents == make_key_from_extracted_data_per_event(
                          "loud_accents", data, self.n_events_per_line)
    IN  << <<"[score]">> >>
          \o midi_notes
          \o << <<"globalTransposition", ": ", ToString(self.global_transposition)>> >>
          \o rhythm
          \o loud_accents
          \o << <<"tempo", ": ", ToString(self.tempo)>> >>

(***************************************************************************)
(* Files                                                                   *)
(***************************************************************************)
NoFile == [exists |-> FALSE, text |-> <<>>]

File(text) == [exists |-> TRUE, text |-> text]

\* convert with the output file opened before the event is converted
score_converter_convert_open_first(self, e, file, open_ok) ==
    LET converted == convert_event(e)
        lyrics_section ==
            make_lyrics_section_from_extracted_data_per_event(self, converted.value)
        score_section ==
            make_score_section_from_extracted_data_per_event(self, converted.value)
    IN  IF ~open_ok
        THEN [raised |-> "OSError", file |-> file]
        ELSE IF converted.raised # "none"
        THEN [raised |-> converted.raised, file |-> File(<<>>)]
        ELSE [raised |-> "none",
              file |-> File(lyrics_section \o << <<>> >> \o score_section)]

(***************************************************************************)
(* IsisScoreConverter.convert: the outcome and the file it leaves, given   *)
(* the file before and whether open(self.path, "w") succeeds.              *)
(***************************************************************************)
score_converter_convert(self, e, file, open_ok) ==
    LET converted == convert_event(e)
        lyrics_section ==
            make_lyrics_section_from_extracted_data_per_event(self, converted.value)
        score_section ==
            make_score_section_from_extracted_data_per_event(self, converted.value)
    IN  IF converted.raised # "none"
        THEN [raised |-> converted.raised, file |-> file]
        ELSE IF ~open_ok
        THEN [raised |-> "OSError", file |-> file]
        ELSE [raised |-> "none",
              file |-> File(lyrics_section \o << <<>> >> \o score_section)]

(***************************************************************************)
(* IsisConverter                                                           *)
(***************************************************************************)
\* the attributes IsisConverter.__init__ assigns
IsisConverterAttributes == {"flags", "path", "isis_score_converter", "remove_score_file"}

\* the command string built in IsisConverter.convert, as pieces: the
\* format string with its two fields, then " {} ".format(flag) per flag
RECURSIVE FlagPieces(_)
FlagPieces(flags) ==
    IF flags = <<>> THEN <<>>
    ELSE <<" ", Head(flags), " ">> \o FlagPieces(Tail(flags))

\* the command with each flag replacing the flags before it
command_last_flag(self, score_converter) ==
    <<"isis.sh -m ", score_converter.path, " -o ", self.path>>
      \o (IF self.flags = <<>> THEN <<>>
          ELSE <<" ", self.flags[Len(self.flags)], " ">>)

command(self, score_converter) ==
    <<"isis.sh -m ", score_converter.path, " -o ", self.path>> \o FlagPieces(self.flags)

\* the statements after os.system with the exit status checked
after_system_checked(self, file, status) ==
    IF status # 0
    THEN [raised |-> "CalledProcessError", file |-> file]
    ELSE IF self.remove_score_file
    THEN IF "csound_score_converter" \notin IsisConverterAttributes
         THEN [raised |-> "AttributeError", file |-> file]
         ELSE IF file.exists
         THEN [raised |-> "none", file |-> NoFile]
         ELSE [raised |-> "FileNotFoundError", file |-> file]
    ELSE [raised |-> "none", file |-> file]

\* the statements of IsisConverter.convert after os.system, whose return
\* value status is dropped: the outcome and the score file they leave
after_system(self, file, status) ==
    IF self.remove_score_file
    THEN IF "csound_score_converter" \notin IsisConverterAttributes
         THEN [raised |-> "AttributeError", file |-> file]
         ELSE IF file.exists
         THEN [raised |-> "none", file |-> NoFile]
         ELSE [raised |-> "FileNotFoundError", file |-> file]
    ELSE [raised |-> "none", file |-> file]

(***************************************************************************)
(* SimpleEvent.  The instance dictionary maps an attribute name to its     *)
(* value; Absent marks a name the instance does not carry.                 *)
(***************************************************************************)
Absent == [kind |-> "absent", v |-> 0]

None == [kind |-> "None", v |-> 0]

Number(v) == [kind |-> "number", v |-> v]

InstanceNames == {"_duration", "pitch_or_pitches", "volume"}

ParameterNames == InstanceNames \cup {"duration", "vowel"}

\* SimpleEvent.__init__
SimpleEventInit(new_duration) ==
    [name \in InstanceNames |-> IF name = "_duration" THEN new_duration ELSE Absent]

\* the duration setter
set_duration(self, new_duration) == [self EXCEPT !["_duration"] = new_duration]

\* getattr(self, name): duration is the property reading self._duration,
\* any other name is looked up in the instance dictionary
getattr(self, name) ==
    LET stored == IF name = "duration" THEN "_duration" ELSE name
    IN  IF stored \in DOMAIN self /\ self[stored] # Absent
        THEN Returned(self[stored])
        ELSE Raised("AttributeError")

\* get_parameter without the except branch
get_parameter_raising(self, parameter_name) ==
    LET got == getattr(self, parameter_name)
    IN  IF got.raised # "none" THEN got
        ELSE Returned(<<got.value>>)

\* SimpleEvent.get_parameter
get_parameter(self, parameter_name) ==
    LET got == getattr(self, parameter_name)
    IN  IF got.raised = "AttributeError" THEN Returned(<<None>>)
        ELSE IF got.raised # "none" THEN got
        ELSE Returned(<<got.value>>)

(***************************************************************************)
(* Inputs                                                                  *)
(***************************************************************************)
\* the leaf events handed to the converters: two notes, a rest (a bare
\* SimpleEvent) and a note whose pitch list is empty
Notes ==
    { Leaf(1, AttributeNames, <<>>, "a", <<WesternPitch("f", 4)>>, DirectVolume(1)),
      Leaf(2, AttributeNames, <<"t">>, "a", <<WesternPitch("g", 4)>>, DirectVolume(1)) }

Rest == Leaf(1, {}, <<>>, "", <<>>, DirectVolume(0))

Pitchless == Leaf(1, AttributeNames, <<>>, "a", <<>>, DirectVolume(1))

SeqsUpTo(S, n) == UNION { [1..k -> S] : k \in 0..n }

ConvertableEvents ==
    Notes \cup {Rest, Pitchless}
      \cup { SequentialEvent(events) : events \in SeqsUpTo(Notes \cup {Rest}, MaxEvents) }
      \cup { SimultaneousEvent(<<>>) }

\* tempo, global_transposition, n_events_per_line: the defaults and another
Settings == { <<60, 0, 5>>, <<90, 2, 2>> }

ScoreConverters ==
    { [path |-> "my_singing_score", tempo |-> setting[1],
       global_transposition |-> setting[2], n_events_per_line |-> setting[3]] :
        setting \in Settings }

Converters ==
    { [path |-> "my_singing.wav", flags |-> flags, remove_score_file |-> remove] :
        flags \in { <<>>, <<"-sv", "-ov">> }, remove \in BOOLEAN }

\* the records _convert_simple_event extracts from the notes and the rest
ExtractedRecords == { convert_simple_event(e).value[1] : e \in Notes \cup {Rest} }

NoOutcome == [raised |-> "pending", value |-> <<>>]

NoParameter == [name |-> "", raised |-> "none", value |-> <<>>]

\* the values every specification starts the other specifications' variables at
DefaultScoreConverter ==
    [path |-> "my_singing_score", tempo |-> 60, global_transposition |-> 0,
     n_events_per_line |-> 5]

DefaultConverter ==
    [path |-> "my_singing.wav", flags |-> <<>>, remove_score_file |-> FALSE]

IdleConverters ==
    /\ pc = "idle"
    /\ call = "none"
    /\ event_to_convert = Rest
    /\ raised = "none"
    /\ system_calls = <<>>
    /\ exit_status = 0
    /\ score_file = NoFile

IdleWrap ==
    /\ extracted_data_per_event = <<>>
    /\ key_name = "none"
    /\ key_block = <<>>

IdleExtract ==
    /\ simple_event_to_convert = Rest
    /\ extracted = NoOutcome

IdleEvent ==
    /\ simple_event = SimpleEventInit(Number(1))
    /\ assigned_duration = Number(1)
    /\ parameter = NoParameter

convert_vars == <<isis_score_converter, isis_converter, score_file, pc, call,
                  event_to_convert, raised, system_calls, exit_status>>

wrap_vars == <<extracted_data_per_event, key_name, key_block>>

extract_vars == <<simple_event_to_convert, extracted>>

event_vars == <<simple_event, assigned_duration, parameter>>

(***************************************************************************)
(* The converters: IsisScoreConverter.convert and IsisConverter.convert    *)
(***************************************************************************)
Init ==
    /\ isis_score_converter \in ScoreConverters
    /\ isis_converter \in Converters
    /\ IdleConverters
    /\ IdleWrap /\ IdleExtract /\ IdleEvent

\* a caller enters IsisScoreConverter.convert
CallScoreConverter ==
    /\ pc = "idle"
    /\ \E e \in ConvertableEvents : event_to_convert' = e
    /\ pc' = "IsisScoreConverter.convert"
    /\ call' = "IsisScoreConverter.convert"
    /\ raised' = "none"
    /\ system_calls' = <<>>
    /\ UNCHANGED <<isis_score_converter, isis_converter, score_file, exit_status,
                   wrap_vars, extract_vars, event_vars>>

\* IsisScoreConverter.convert
ScoreConverterConvert ==
    /\ pc = "IsisScoreConverter.convert"
    /\ \E open_ok \in BOOLEAN :
         LET done == score_converter_convert(
                         isis_score_converter, event_to_convert, score_file, open_ok)
         IN  /\ raised' = done.raised
             /\ score_file' = done.file
    /\ pc' = "idle"
    /\ UNCHANGED <<isis_score_converter, isis_converter, call, event_to_convert,
                   system_calls, exit_status, wrap_vars, extract_vars, event_vars>>

\* a caller enters IsisConverter.convert
CallConverter ==
    /\ pc = "idle"
    /\ \E e \in ConvertableEvents : event_to_convert' = e
    /\ pc' = "IsisConverter.convert"
    /\ call' = "IsisConverter.convert"
    /\ raised' = "none"
    /\ system_calls' = <<>>
    /\ UNCHANGED <<isis_score_converter, isis_converter, score_file, exit_status,
                   wrap_vars, extract_vars, event_vars>>

\* IsisConverter.convert, first statement: self.isis_score_converter.convert
WriteScore ==
    /\ pc = "IsisConverter.convert"
    /\ \E open_ok \in BOOLEAN :
         LET done == score_converter_convert(
                         isis_score_converter, event_to_convert, score_file, open_ok)
         IN  /\ raised' = done.raised
             /\ score_file' = done.file
             /\ pc' = IF done.raised = "none" THEN "os.system" ELSE "idle"
    /\ UNCHANGED <<isis_score_converter, isis_converter, call, event_to_convert,
                   system_calls, exit_status, wrap_vars, extract_vars, event_vars>>

\* IsisConverter.convert: the command is built and os.system runs it; the
\* exit status is whatever the external command produces
System ==
    /\ pc = "os.system"
    /\ system_calls' = Append(system_calls, command(isis_converter, isis_score_converter))
    /\ \E status \in 0..MaxExit : exit_status' = status
    /\ pc' = "remove_score_file"
    /\ UNCHANGED <<isis_score_converter, isis_converter, score_file, call,
                   event_to_convert, raised, wrap_vars, extract_vars, event_vars>>

\* IsisConverter.convert: the statements after os.system
RemoveScoreFile ==
    /\ pc = "remove_score_file"
    /\ LET done == after_system(isis_converter, score_file, exit_status)
       IN  /\ raised' = done.raised
           /\ score_file' = done.file
    /\ pc' = "idle"
    /\ UNCHANGED <<isis_score_converter, isis_converter, call, event_to_convert,
                   system_calls, exit_status, wrap_vars, extract_vars, event_vars>>

Next ==
    \/ CallScoreConverter
    \/ ScoreConverterConvert
    \/ CallConverter
    \/ WriteScore
    \/ System
    \/ RemoveScoreFile

Spec == Init /\ [][Next]_vars

(***************************************************************************)
(* _make_key_from_extracted_data_per_event on every record sequence        *)
(***************************************************************************)
InitWrap ==
    /\ \E n \in 1..MaxPerLine :
         isis_score_converter = [DefaultScoreConverter EXCEPT !.n_events_per_line = n]
    /\ isis_converter = DefaultConverter
    /\ IdleConverters
    /\ extracted_data_per_event \in SeqsUpTo(ExtractedRecords, MaxWrapEvents)
    /\ key_name = "none"
    /\ key_block = <<>>
    /\ IdleExtract /\ IdleEvent

MakeKey ==
    /\ \E name \in KeyNames :
         /\ key_name' = name
         /\ key_block' = make_key_from_extracted_data_per_event(
                             name, extracted_data_per_event,
                             isis_score_converter.n_events_per_line)
    /\ UNCHANGED <<convert_vars, extracted_data_per_event, extract_vars, event_vars>>

NextWrap == MakeKey

SpecWrap == InitWrap /\ [][NextWrap]_vars

(***************************************************************************)
(* _convert_simple_event on every leaf event                               *)
(***************************************************************************)
InitExtract ==
    /\ isis_score_converter = DefaultScoreConverter
    /\ isis_converter = DefaultConverter
    /\ IdleConverters
    /\ IdleWrap
    /\ simple_event_to_convert \in LeafEvents
    /\ extracted = NoOutcome
    /\ IdleEvent

ConvertSimpleEvent ==
    /\ extracted' = convert_simple_event(simple_event_to_convert)
    /\ UNCHANGED <<convert_vars, wrap_vars, simple_event_to_convert, event_vars>>

NextExtract == ConvertSimpleEvent

SpecExtract == InitExtract /\ [][NextExtract]_vars

(***************************************************************************)
(* SimpleEvent                                                             *)
(***************************************************************************)
Values == {None} \cup { Number(v) : v \in 0..MaxValue }

InitEvent ==
    /\ isis_score_converter = DefaultScoreConverter
    /\ isis_converter = DefaultConverter
    /\ IdleConverters
    /\ IdleWrap /\ IdleExtract
    /\ \E d \in Values :
         /\ simple_event = SimpleEventInit(d)
         /\ assigned_duration = d
    /\ parameter = NoParameter

\* event.duration = d
SetDuration ==
    /\ \E d \in Values :
         /\ simple_event' = set_duration(simple_event, d)
         /\ assigned_duration' = d
    /\ UNCHANGED <<convert_vars, wrap_vars, extract_vars, parameter>>

\* event.<name> = v, for a name that is not the duration
SetAttribute ==
    /\ \E name \in InstanceNames \ {"_duration"}, v \in Values :
         simple_event' = [simple_event EXCEPT ![name] = v]
    /\ UNCHANGED <<convert_vars, wrap_vars, extract_vars, assigned_duration, parameter>>

\* event.get_parameter(name)
GetParameter ==
    /\ \E name \in ParameterNames :
         LET got == get_parameter(simple_event, name)
         IN  parameter' = [name |-> name, raised |-> got.raised, value |-> got.value]
    /\ UNCHANGED <<convert_vars, wrap_vars, extract_vars, simple_event, assigned_duration>>

NextEvent ==
    \/ SetDuration
    \/ SetAttribute
    \/ GetParameter

SpecEvent == InitEvent /\ [][NextEvent]_vars

(***************************************************************************)
(* Reading a field block back: the items of each of its lines              *)
(***************************************************************************)
Separators == {", ", ",", " "}

ItemsOfLine(block, i) ==
    LET line == IF i = 1 THEN SubSeq(block[i], 3, Len(block[i])) ELSE block[i]
    IN  SelectSeq(line, LAMBDA piece : piece \notin Separators)

ItemsPerLine(block) == [i \in 1..Len(block) |-> ItemsOfLine(block, i)]

RECURSIVE Flatten(_)
Flatten(seqs) == IF seqs = <<>> THEN <<>> ELSE Head(seqs) \o Flatten(Tail(seqs))

\* the groups of a block: its lines that hold items
Groups(block) == SelectSeq(ItemsPerLine(block), LAMBDA items : items # <<>>)

ItemsPerEvent == [i \in 1..Len(extracted_data_per_event) |->
                    key(key_name, extracted_data_per_event[i])]

Ceil(a, b) == (a + b - 1) \div b

FullRecords == { convert_simple_event(e).value[1] : e \in Notes }

\* C1: for N >= 1 records of events carrying all four fields and every
\* n_events_per_line >= 1, a field block has exactly ceil(N / n_events_per_line)
\* groups, and the groups hold the items of all N events.
C1_GroupCount ==
    ( /\ key_name # "none"
      /\ Len(extracted_data_per_event) >= 1
      /\ \A i \in 1..Len(extracted_data_per_event) :
            extracted_data_per_event[i] \in FullRecords )
    => /\ Len(Groups(key_block))
            = Ceil(Len(extracted_data_per_event), isis_score_converter.n_events_per_line)
       /\ Len(Flatten(Groups(key_block))) = Len(Flatten(ItemsPerEvent))

\* C10: the lines of a field block, concatenated in order, are exactly the
\* events' items in event order, and when there is an event no line of the
\* block is without items.
C10_WrapKeepsItems ==
    key_name # "none"
    => /\ Flatten(ItemsPerLine(key_block)) = Flatten(ItemsPerEvent)
       /\ Len(extracted_data_per_event) >= 1
            => \A i \in 1..Len(key_block) : ItemsOfLine(key_block, i) # <<>>

C10_Witness ==
    /\ key_name = "xsampa"
    /\ Len(extracted_data_per_event) = 4
    /\ isis_score_converter.n_events_per_line = 2
    /\ Len(key_block) = 3
    /\ Len(Flatten(ItemsPerLine(key_block))) > 4

(***************************************************************************)
(* _convert_simple_event                                                   *)
(***************************************************************************)
\* the i-th extraction function is reached and fails with AttributeError
FailsAbsent(e, i) ==
    /\ extraction_functions(i, e).raised = "AttributeError"
    /\ \A j \in 1..(i - 1) : extraction_functions(j, e).raised = "none"

NoneFails(e) == \A i \in 1..4 : extraction_functions(i, e).raised = "none"

\* C3: when an extraction function fails with AttributeError the event's
\* record is the fixed default for all four fields together, whichever
\* function failed and whatever the earlier ones returned; when none fails
\* the record is (duration, consonants, vowel, pitch, volume); the
\* AttributeError never leaves _convert_simple_event.
C3_DefaultRecord ==
    extracted # NoOutcome
    => LET e == simple_event_to_convert
       IN  /\ (\E i \in 1..4 : FailsAbsent(e, i))
                => extracted = Returned(<< <<e.duration, <<>>, "_",
                                              WesternPitch("c", -1), DirectVolume(0)>> >>)
           /\ NoneFails(e)
                => extracted = Returned(<< <<e.duration, e.consonants, e.vowel,
                                              e.pitch_or_pitches[1], e.volume>> >>)
           /\ extracted.raised # "AttributeError"

\* the consonants, the vowel and the pitch were returned, the volume failed
C3_Witness ==
    /\ extracted # NoOutcome
    /\ simple_event_to_convert.attrs = {"consonants", "vowel", "pitch_or_pitches"}
    /\ simple_event_to_convert.consonants = <<"t">>
    /\ simple_event_to_convert.pitch_or_pitches # <<>>
    /\ simple_event_to_convert.duration = 2
    /\ extracted.value = << <<2, <<>>, "_", WesternPitch("c", -1), DirectVolume(0)>> >>

(***************************************************************************)
(* The converters                                                          *)
(***************************************************************************)
\* C4: IsisScoreConverter.convert of a SimultaneousEvent raises
\* NotImplementedError and leaves the file at its path as it was, neither
\* created nor modified.
C4_SimultaneousWritesNothing ==
    [][ (pc = "IsisScoreConverter.convert" /\ event_to_convert.kind = "SimultaneousEvent")
        => (raised' = "NotImplementedError" /\ score_file' = score_file) ]_vars

\* a score written by an earlier call is still there after the failed call
C4_Witness ==
    /\ pc = "idle"
    /\ call = "IsisScoreConverter.convert"
    /\ event_to_convert.kind = "SimultaneousEvent"
    /\ raised = "NotImplementedError"
    /\ score_file.exists
    /\ Len(score_file.text) > 1

\* the exceptions that leave IsisScoreConverter.convert
WriteFailures == {"NotImplementedError", "IndexError", "OSError"}

Finished(method) == pc = "idle" /\ call = method

\* C2: with remove_score_file = True, IsisConverter.convert returns without
\* raising once the renderer has run, and the score file is gone.
C2_ScoreFileRemoved ==
    ( /\ Finished("IsisConverter.convert")
      /\ isis_converter.remove_score_file
      /\ Len(system_calls) = 1 )
    => (raised = "none" /\ ~score_file.exists)

\* C5: IsisConverter.convert runs os.system only after the score file is
\* written, once, never when writing the score failed, and with the command
\* "isis.sh -m <score path> -o <path>" followed by the configured flags in
\* their order.
C5_RenderAfterScore ==
    /\ [][ system_calls' # system_calls /\ system_calls' # <<>>
           => /\ pc = "os.system"
              /\ raised = "none"
              /\ score_file.exists
              /\ score_file' = score_file
              /\ Len(system_calls') = 1 ]_vars
    /\ [] ( /\ Len(system_calls) <= 1
            /\ call = "IsisScoreConverter.convert" => system_calls = <<>>
            /\ Finished("IsisConverter.convert")
                 => IF raised \in WriteFailures
                    THEN system_calls = <<>>
                    ELSE /\ Len(system_calls) = 1
                         /\ SubSeq(system_calls[1], 1, 4)
                              = <<"isis.sh -m ", isis_score_converter.path,
                                  " -o ", isis_converter.path>>
                         /\ SelectSeq(SubSeq(system_calls[1], 5, Len(system_calls[1])),
                                      LAMBDA piece : piece # " ")
                              = isis_converter.flags )

C5_Witness ==
    /\ Finished("IsisConverter.convert")
    /\ raised = "none"
    /\ Len(isis_converter.flags) = 2
    /\ Len(system_calls) = 1
    /\ Len(system_calls[1]) = 10

\* C7: with remove_score_file = False, IsisConverter.convert returns without
\* raising whatever the exit status of the external command, and the written
\* score file stays.
C7_ExitStatusIgnored ==
    ( /\ Finished("IsisConverter.convert")
      /\ ~isis_converter.remove_score_file
      /\ Len(system_calls) = 1 )
    => (raised = "none" /\ score_file.exists)

C7_Witness ==
    /\ Finished("IsisConverter.convert")
    /\ ~isis_converter.remove_score_file
    /\ Len(system_calls) = 1
    /\ exit_status # 0
    /\ raised = "none"
    /\ score_file.exists

\* the keys of the lines of a text, in order
IsKeyLine(line) == Len(line) >= 2 /\ line[2] = ": "

KeysOf(text) == LET key_lines == SelectSeq(text, IsKeyLine)
                IN  [i \in 1..Len(key_lines) |-> key_lines[i][1]]

\* the positions of the lines equal to a given line
Positions(text, line) == { i \in 1..Len(text) : text[i] = line }

\* C9: the written score is the [lyrics] section with the single key xsampa,
\* one blank line, and the [score] section with the keys midiNotes,
\* globalTransposition, rhythm, loud_accents, tempo, each once and in this
\* order; tempo and globalTransposition carry the configured values.
C9_ScoreLayout ==
    score_file.exists
    => LET text == score_file.text
       IN  /\ Positions(text, <<"[lyrics]">>) = {1}
           /\ Cardinality(Positions(text, <<>>)) = 1
           /\ \A blank \in Positions(text, <<>>) :
                /\ Positions(text, <<"[score]">>) = {blank + 1}
                /\ KeysOf(SubSeq(text, 1, blank)) = <<"xsampa">>
                /\ KeysOf(SubSeq(text, blank + 1, Len(text)))
                     = <<"midiNotes", "globalTransposition", "rhythm",
                         "loud_accents", "tempo">>
           /\ Positions(text, <<"tempo", ": ", ToString(isis_score_converter.tempo)>>)
                = {Len(text)}
           /\ Cardinality(Positions(text,
                  <<"globalTransposition", ": ",
                    ToString(isis_score_converter.global_transposition)>>)) = 1

\* a sequential event of two events, every field block on two lines
C9_Witness ==
    /\ Finished("IsisScoreConverter.convert")
    /\ raised = "none"
    /\ event_to_convert.kind = "SequentialEvent"
    /\ Len(event_to_convert.events) = 2
    /\ isis_score_converter.tempo = 90
    /\ score_file.exists
    /\ Len(score_file.text) = 13

(***************************************************************************)
(* SimpleEvent.get_parameter                                               *)
(***************************************************************************)
\* the value an instance carries under a name, the duration property
\* being carried as _duration
Carried(self, name) ==
    LET stored == IF name = "duration" THEN "_duration" ELSE name
    IN  IF stored \in InstanceNames THEN self[stored] ELSE Absent

\* C6: get_parameter(name) never raises; it returns a tuple of length 1
\* holding the attribute's value when the event has the attribute and None
\* otherwise, and for "duration" the value assigned to duration last.
C6_GetParameter ==
    [][ parameter' # parameter
        => /\ parameter'.raised = "none"
           /\ Len(parameter'.value) = 1
           /\ parameter'.value[1]
                = (IF Carried(simple_event, parameter'.name) # Absent
                   THEN Carried(simple_event, parameter'.name) ELSE None)
           /\ parameter'.name = "duration"
                => parameter'.value[1] = assigned_duration ]_vars

\* a name the event does not carry yields (None,), with the duration set
\* anew before
C6_Witness ==
    /\ parameter.name = "vowel"
    /\ parameter.raised = "none"
    /\ parameter.value = <<None>>
    /\ assigned_duration = Number(2)
    /\ simple_event["volume"] = Number(1)

====
